---- MODULE Spec2Model ----
(***************************************************************************)
(* CCXStressReader: one run of main() (src/main/CCXStressReader.py).       *)
(*                                                                         *)
(* A token of an input line is either a number or a word.  str.isdigit()   *)
(* holds of a number token written with digits only (modelled: n >= 0);    *)
(* float() accepts every number token (also "-1") and no word.            *)
(* A float is a record [nan, v]; a NumPy array is a record [ndim, w, a]    *)
(* with a the sequence of its rows and w the row width.  Positions are the *)
(* 0-based Python indices of the source.                                   *)
(***************************************************************************)
EXTENDS Integers, Sequences, FiniteSets, TLC

VARIABLES pc, fname, lines, S, E, PEEQ, MISES, EEQ, RESarr, report, stdout,
          error, exitcode

vars == <<pc, fname, lines, S, E, PEEQ, MISES, EEQ, RESarr, report, stdout,
          error, exitcode>>

\* ------------------------------------------------------------------ bounds
MaxLines == 5
MaxRows == 2
MaxStatRows == 2

\* ------------------------------------------------------------ tokens, lines
N(n) == [w |-> "", n |-> n]
W(s) == [w |-> s, n |-> 0]

isdigit(t) == t.w = "" /\ t.n >= 0
IsFloat(t) == t.w = ""

StressKey == <<W("stresses"), W("(elem,"), W("integ.pnt.,sxx,syy,szz,sxy,sxz,syz)")>>
StrainKey == <<W("strains"), W("(elem,"), W("integ.pnt.,exx,eyy,ezz,exy,exz,eyz)")>>
PeeqKey == <<W("equivalent"), W("plastic"), W("strain")>>
Recognized == {StressKey, StrainKey, PeeqKey}

\* The lines a solver report is made of in this model.
HdrS == StressKey \o <<W("for")>>
HdrE == StrainKey \o <<W("for")>>
HdrP == PeeqKey \o <<W("for")>>
HdrO == <<W("displacements"), W("(vx,vy,vz)"), W("for")>>
HdrN == <<N(0 - 1), N(1), N(3), N(0), N(0), N(0), N(0), N(0)>>
RowA == <<N(1), N(1), N(3), N(0), N(0), N(0), N(0), N(0)>>
RowB == <<N(2), N(1), N(0), N(6), N(0), N(0), N(0), N(0)>>
RowP == <<N(1), N(1), N(5)>>
RowQ == <<N(2), N(1), N(7)>>
RowBad == <<N(1), N(2), W("abc")>>

LineKinds == {HdrS, HdrE, HdrP, HdrO, HdrN, RowA, RowBad}

SeqsUpTo(X, n) == UNION {[1..k -> X] : k \in 0..n}

\* Reports made of whole blocks: any arrangement of some of the four blocks,
\* each with 0..MaxRows rows (8 columns; 3 columns under the plastic-strain
\* header).
BlockKinds == {"S", "E", "P", "O"}
Header(b) == IF b = "S" THEN HdrS ELSE IF b = "E" THEN HdrE
             ELSE IF b = "P" THEN HdrP ELSE HdrO
Rows(b, n) == [i \in 1..n |->
                 IF b = "P" THEN (IF i % 2 = 1 THEN RowP ELSE RowQ)
                 ELSE (IF i % 2 = 1 THEN RowA ELSE RowB)]
Block(b, n) == <<Header(b)>> \o Rows(b, n)

RECURSIVE Assemble(_, _)
Assemble(order, count) ==
    IF order = <<>> THEN <<>>
    ELSE Block(Head(order), Head(count)) \o Assemble(Tail(order), Tail(count))

Arrangements == {o \in SeqsUpTo(BlockKinds, Cardinality(BlockKinds)) :
                   \A i, j \in 1..Len(o) : i # j => o[i] # o[j]}

BlockFiles == UNION {{Assemble(o, c) : c \in [1..Len(o) -> 0..MaxRows]} : o \in Arrangements}

Files == SeqsUpTo(LineKinds, MaxLines) \cup BlockFiles

DatName == <<"r", ".", "d", "a", "t">>
Fnames == {DatName, <<"r", ".", "t", "x", "t">>, <<"d", "a", "t">>}

\* ------------------------------------------------------------------ floats
F(v) == [nan |-> FALSE, v |-> v]
NaN == [nan |-> TRUE, v |-> 0]

Min2(a, b) == IF a <= b THEN a ELSE b
Max2(a, b) == IF a >= b THEN a ELSE b

\* Python slices
Slice(s, a, b) == SubSeq(s, a + 1, b)
Last4(s) == SubSeq(s, Max2(1, Len(s) - 3), Len(s))
DropLast4(s) == SubSeq(s, 1, Len(s) - 4)

\* ------------------------------------------------------------------ arrays
Unbound == [ndim |-> 0, w |-> 0, a |-> <<>>]

\* np.array(rows, dtype=float): ValueError on a token float() rejects and on
\* rows of unequal length; an empty list gives a 1-D array of shape (0,).
\* A conversion that takes a token float() rejects for a missing value.
NpArrayFailsRaggedOnly(rows) == \E i \in 1..Len(rows) : Len(rows[i]) # Len(rows[1])

NpArrayFails(rows) ==
    \/ \E i \in 1..Len(rows) : \E j \in 1..Len(rows[i]) : ~IsFloat(rows[i][j])
    \/ \E i \in 1..Len(rows) : Len(rows[i]) # Len(rows[1])

NpArray(rows) ==
    IF rows = <<>> THEN [ndim |-> 1, w |-> 0, a |-> <<>>]
    ELSE [ndim |-> 2, w |-> Len(rows[1]),
          a |-> [i \in 1..Len(rows) |-> [j \in 1..Len(rows[i]) |-> F(rows[i][j].n)]]]

\* np.full((n, 3), np.nan)
NpFull(n) == [ndim |-> 2, w |-> 3, a |-> [i \in 1..n |-> <<NaN, NaN, NaN>>]]

\* A[:,j] raises IndexError unless A is 2-D with more than j columns.
HasCol(A, j) == A.ndim = 2 /\ j < A.w
Col(A, j) == [i \in 1..Len(A.a) |-> A.a[i][j + 1]]

\* ---------------------------------------------------------------- read_input
Key(cline) == SubSeq(cline, 1, Min2(3, Len(cline)))

keylist(ls) ==
    LET idx == {i \in 1..Len(ls) : ~isdigit(ls[i][1])}
        RECURSIVE pick(_)
        pick(i) == IF i > Len(ls) THEN <<>>
                   ELSE IF i \in idx THEN <<Key(ls[i])>> \o pick(i + 1)
                   ELSE pick(i + 1)
    IN pick(1)

valuelist(ls) == [i \in 1..Len(ls) |-> Key(ls[i])]

otherlist(ls) == SelectSeq(keylist(ls), LAMBDA k : k \notin Recognized)

In(x, s) == \E i \in 1..Len(s) : s[i] = x

\* list.index: the 0-based position of the first occurrence; -1 stands for
\* the ValueError of an absent element.
Index(s, x) ==
    IF In(x, s) THEN (CHOOSE i \in 1..Len(s) : s[i] = x /\ \A j \in 1..(i - 1) : s[j] # x) - 1
    ELSE 0 - 1

\* The test of line 60 left out.
StressFoundAlways(ls) == TRUE

StressFound(ls) == In(StressKey, keylist(ls))

Oindex(ls) ==
    LET ol == otherlist(ls)
        vl == valuelist(ls)
        Oindexlist == [i \in 1..Len(ol) |-> Index(vl, ol[i])]
    IN IF ol # <<>>
       THEN F(CHOOSE m \in {Oindexlist[i] : i \in 1..Len(ol)} :
                  \A i \in 1..Len(ol) : m <= Oindexlist[i])
       ELSE NaN

indexarr(ls) ==
    LET vl == valuelist(ls)
        kl == keylist(ls)
    IN <<F(Index(vl, StressKey)),
         IF In(StrainKey, kl) THEN F(Index(vl, StrainKey)) ELSE NaN,
         IF In(PeeqKey, kl) THEN F(Index(vl, PeeqKey)) ELSE NaN,
         Oindex(ls),
         NaN>>

\* np.argsort: ascending, not-a-number last (equal entries in index order).
Before(arr, i, j) ==
    \/ ~arr[i].nan /\ arr[j].nan
    \/ ~arr[i].nan /\ ~arr[j].nan /\ (arr[i].v < arr[j].v \/ (arr[i].v = arr[j].v /\ i < j))
    \/ arr[i].nan /\ arr[j].nan /\ i < j

\* The sort left out: the entries in the order S, E, PEEQ, O.
argsort_unsorted(arr) == [q \in 1..Len(arr) |-> q]

argsort(arr) ==
    [q \in 1..Len(arr) |->
        CHOOSE i \in 1..Len(arr) : Cardinality({j \in 1..Len(arr) : Before(arr, j, i)}) = q - 1]

\* indexarr[indexarrsort[np.where(indexarrsort==k)[0][0]+1]] for block k
\* (k = 1, 2, 3 here for the source's 0, 1, 2).
NextIndex(arr, k) ==
    LET srt == argsort(arr)
        at == CHOOSE q \in 1..Len(arr) : srt[q] = k
    IN arr[srt[at + 1]]

\* The slice of lines read for block k, whose header is at arr[k].
BlockSlice(ls, arr, k) ==
    IF NextIndex(arr, k).nan THEN Slice(ls, arr[k].v + 1, Len(ls))
    ELSE Slice(ls, arr[k].v + 1, NextIndex(arr, k).v)

MsgNoS == "Stress output S not found."
MsgNoE == "Strain output E not found."
MsgNoP == "Equivalent plastic strain output PEEQ not found."
MsgBadFile == "File is invalid, please select .dat file."
MsgDone == "Results successfully written to file"

\* read_input, lines 90-109, with the index array of lines 59-88 at hand.
read_blocks(ls, arr) ==
    LET warn == (IF arr[2].nan THEN <<MsgNoE>> ELSE <<>>)
                \o (IF arr[3].nan THEN <<MsgNoP>> ELSE <<>>)
        fail(m) == [out |-> m, msgs |-> warn, S |-> Unbound, E |-> Unbound, PEEQ |-> Unbound]
    IN IF arr[1].v < 0 THEN [out |-> "ValueError", msgs |-> <<>>, S |-> Unbound,
                              E |-> Unbound, PEEQ |-> Unbound]
       ELSE IF NpArrayFails(BlockSlice(ls, arr, 1)) THEN fail("ValueError")
       ELSE IF ~arr[2].nan /\ NpArrayFails(BlockSlice(ls, arr, 2)) THEN fail("ValueError")
       ELSE IF ~arr[3].nan /\ NpArrayFails(BlockSlice(ls, arr, 3)) THEN fail("ValueError")
       ELSE LET Sarr == NpArray(BlockSlice(ls, arr, 1))
            IN [out |-> "ok", msgs |-> warn, S |-> Sarr,
                E |-> IF arr[2].nan THEN NpFull(Len(Sarr.a))
                      ELSE NpArray(BlockSlice(ls, arr, 2)),
                PEEQ |-> IF arr[3].nan THEN NpFull(Len(Sarr.a))
                         ELSE NpArray(BlockSlice(ls, arr, 3))]

\* read_input as a function of the file's non-blank lines: out is "exit"
\* (sys.exit()), "ValueError" (raised by np.array or list.index) or "ok".
read_input(ls) ==
    IF ~StressFound(ls)
    THEN [out |-> "exit", msgs |-> <<MsgNoS>>, S |-> Unbound, E |-> Unbound, PEEQ |-> Unbound]
    ELSE read_blocks(ls, indexarr(ls))

\* ------------------------------------------------------------ tensor reducer
\* np.sqrt on the radicands the model's rows produce (perfect squares);
\* the integer part otherwise.
Sqrt(x) == CHOOSE s \in 0..x : s * s <= x /\ (s + 1) * (s + 1) > x

Radicand(r) ==
    (((r[3].v - r[4].v) * (r[3].v - r[4].v) + (r[4].v - r[5].v) * (r[4].v - r[5].v)
      + (r[5].v - r[3].v) * (r[5].v - r[3].v)) \div 2)
    + 3 * (r[6].v * r[6].v + r[7].v * r[7].v + r[8].v * r[8].v)

AnyNaN(r, lo, hi) == \E j \in lo..hi : r[j].nan

compute_eqstress(Sa) ==
    [ndim |-> 2, w |-> 3,
     a |-> [i \in 1..Len(Sa.a) |->
              <<Sa.a[i][1], Sa.a[i][2],
                IF AnyNaN(Sa.a[i], 3, 8) THEN NaN ELSE F(Sqrt(Radicand(Sa.a[i])))>>]]

compute_eqstrain(Ea) ==
    [ndim |-> 2, w |-> 3,
     a |-> [i \in 1..Len(Ea.a) |->
              <<Ea.a[i][1], Ea.a[i][2],
                IF AnyNaN(Ea.a[i], 3, 8) THEN NaN
                ELSE F((2 * Sqrt(Radicand(Ea.a[i]))) \div 3)>>]]

\* np.isnan(np.sum(col))
SumIsNaN(col) == \E i \in 1..Len(col) : col[i].nan

\* np.column_stack((MISES, EEQ[:,2], PEEQ[:,2])): ValueError unless the
\* three have the same number of rows; the stacked array has that number
\* of rows (written as the common length).
\* No check of the lengths.
StackNeverFails(M, e, p) == FALSE

StackFails(M, e, p) == Len(e) # Len(M.a) \/ Len(p) # Len(M.a)

column_stack(M, e, p) ==
    [ndim |-> 2, w |-> 5,
     a |-> [i \in 1..Min2(Len(M.a), Min2(Len(e), Len(p))) |-> M.a[i] \o <<e[i], p[i]>>]]

\* ------------------------------------------------------------- write_txtfile
\* np.fmin: a not-a-number is skipped.
fmin(x, y) == IF x.nan THEN y ELSE IF y.nan THEN x ELSE F(Min2(x.v, y.v))

minimum(x, y) == IF x.nan \/ y.nan THEN NaN ELSE F(Min2(x.v, y.v))
maximum(x, y) == IF x.nan \/ y.nan THEN NaN ELSE F(Max2(x.v, y.v))
add(x, y) == IF x.nan \/ y.nan THEN NaN ELSE F(x.v + y.v)

\* The reductions along axis 0 fold a column from its first entry on.
RECURSIVE FoldMin(_, _)
FoldMin(col, n) == IF n = 1 THEN col[1] ELSE minimum(FoldMin(col, n - 1), col[n])

RECURSIVE FoldMax(_, _)
FoldMax(col, n) == IF n = 1 THEN col[1] ELSE maximum(FoldMax(col, n - 1), col[n])

RECURSIVE FoldAdd(_, _)
FoldAdd(col, n) == IF n = 1 THEN col[1] ELSE add(FoldAdd(col, n - 1), col[n])

\* np.amin / np.amax / np.mean along axis 0, one entry per column; the mean
\* is kept as the exact quotient num/den.
amin(A) == [j \in 1..A.w |-> FoldMin(Col(A, j - 1), Len(A.a))]
amax(A) == [j \in 1..A.w |-> FoldMax(Col(A, j - 1), Len(A.a))]
mean(A) ==
    [j \in 1..A.w |->
        LET s == FoldAdd(Col(A, j - 1), Len(A.a))
        IN [nan |-> s.nan, num |-> s.v, den |-> IF s.nan THEN 1 ELSE Len(A.a)]]

NoReport == [written |-> FALSE, name |-> <<>>, rows |-> <<>>,
             min |-> <<>>, max |-> <<>>, mean |-> <<>>]

\* The report file: its name, its rows and the three summary lines (the
\* MISES, EEQ and PEEQ entries of MINarr, MAXarr and MEANarr).
write_txtfile(fn, A) ==
    [written |-> TRUE,
     name |-> DropLast4(fn) \o <<"_IntPtOutput.txt">>,
     rows |-> A.a,
     min |-> SubSeq(amin(A), 3, 5),
     max |-> SubSeq(amax(A), 3, 5),
     mean |-> SubSeq(mean(A), 3, 5)]

\* ------------------------------------------------------------------ the run
NoError == [type |-> "", line |-> 0 - 1]
\* An uncaught exception: its type; the traceback names no line of the
\* input file (line = -1).
Raised(t) == [type |-> t, line |-> 0 - 1]

Init ==
    /\ pc = "start"
    /\ fname = <<>>
    /\ lines = <<>>
    /\ S = Unbound /\ E = Unbound /\ PEEQ = Unbound
    /\ MISES = Unbound /\ EEQ = Unbound /\ RESarr = Unbound
    /\ report = NoReport
    /\ stdout = <<>>
    /\ error = NoError
    /\ exitcode = 0 - 1

Crash(t) ==
    /\ pc' = "crashed"
    /\ error' = Raised(t)
    /\ exitcode' = 1

\* main, lines 150-155: the prompt and the suffix test; sys.exit() without
\* an argument ends the process with status 0.
CheckPath ==
    /\ pc = "start"
    /\ \E f \in Fnames :
        /\ fname' = f
        /\ IF Last4(f) # <<".", "d", "a", "t">>
           THEN /\ stdout' = Append(stdout, MsgBadFile)
                /\ pc' = "exited"
                /\ exitcode' = 0
           ELSE /\ pc' = "read"
                /\ UNCHANGED <<stdout, exitcode>>
    /\ UNCHANGED <<lines, S, E, PEEQ, MISES, EEQ, RESarr, report, error>>

\* main, line 158: read_input(fname) on the file the path names (a file
\* that exists and can be read).
ReadInput ==
    /\ pc = "read"
    /\ \E file \in Files :
        \E r \in {read_input(file)} :
           /\ lines' = file
           /\ stdout' = stdout \o r.msgs
           /\ S' = r.S /\ E' = r.E /\ PEEQ' = r.PEEQ
           /\ IF r.out = "ok"
              THEN pc' = "stress" /\ UNCHANGED <<error, exitcode>>
              ELSE IF r.out = "exit"
              THEN pc' = "exited" /\ exitcode' = 0 /\ UNCHANGED error
              ELSE Crash(r.out)
    /\ UNCHANGED <<fname, MISES, EEQ, RESarr, report>>

\* main, line 161
ComputeEqStress ==
    /\ pc = "stress"
    /\ IF \A j \in 0..7 : HasCol(S, j)
       THEN /\ MISES' = compute_eqstress(S)
            /\ pc' = "strain"
            /\ UNCHANGED <<error, exitcode>>
       ELSE /\ Crash("IndexError")
            /\ UNCHANGED MISES
    /\ UNCHANGED <<fname, lines, S, E, PEEQ, EEQ, RESarr, report, stdout>>

\* main, lines 164-167: EEQ is bound only when the strain column has no
\* not-a-number.
ComputeEqStrain ==
    /\ pc = "strain"
    /\ IF ~HasCol(E, 2)
       THEN Crash("IndexError") /\ UNCHANGED EEQ
       ELSE IF SumIsNaN(Col(E, 2))
       THEN pc' = "format" /\ UNCHANGED <<EEQ, error, exitcode>>
       ELSE IF \A j \in 0..7 : HasCol(E, j)
       THEN /\ EEQ' = compute_eqstrain(E)
            /\ pc' = "format"
            /\ UNCHANGED <<error, exitcode>>
       ELSE Crash("IndexError") /\ UNCHANGED EEQ
    /\ UNCHANGED <<fname, lines, S, E, PEEQ, MISES, RESarr, report, stdout>>

\* main, line 170
FormatOutput ==
    /\ pc = "format"
    /\ IF EEQ = Unbound
       THEN Crash("NameError") /\ UNCHANGED RESarr
       ELSE IF ~HasCol(EEQ, 2) \/ ~HasCol(PEEQ, 2)
       THEN Crash("IndexError") /\ UNCHANGED RESarr
       ELSE IF StackFails(MISES, Col(EEQ, 2), Col(PEEQ, 2))
       THEN Crash("ValueError") /\ UNCHANGED RESarr
       ELSE /\ RESarr' = column_stack(MISES, Col(EEQ, 2), Col(PEEQ, 2))
            /\ pc' = "write"
            /\ UNCHANGED <<error, exitcode>>
    /\ UNCHANGED <<fname, lines, S, E, PEEQ, MISES, EEQ, report, stdout>>

\* main, line 173, and the normal end of the process (status 0); np.amin of
\* an array without rows raises ValueError before the file is opened.
WriteTxtfile ==
    /\ pc = "write"
    /\ IF Len(RESarr.a) = 0
       THEN Crash("ValueError") /\ UNCHANGED <<report, stdout>>
       ELSE /\ report' = write_txtfile(fname, RESarr)
            /\ stdout' = Append(stdout, MsgDone)
            /\ pc' = "done"
            /\ exitcode' = 0
            /\ UNCHANGED error
    /\ UNCHANGED <<fname, lines, S, E, PEEQ, MISES, EEQ, RESarr>>

Next ==
    \/ CheckPath
    \/ ReadInput
    \/ ComputeEqStress
    \/ ComputeEqStrain
    \/ FormatOutput
    \/ WriteTxtfile

Spec == Init /\ [][Next]_vars

\* write_txtfile alone, on result arrays of up to MaxStatRows rows whose
\* scalar columns mix numbers and not-a-number.
StatValues == {NaN, F(1), F(4)}
StatRows == {<<F(1), F(1), m, e, p>> : m \in StatValues, e \in StatValues, p \in StatValues}
StatArrays == {[ndim |-> 2, w |-> 5, a |-> r] : r \in SeqsUpTo(StatRows, MaxStatRows)}

InitStats ==
    /\ pc = "write"
    /\ fname = DatName
    /\ lines = <<>>
    /\ S = Unbound /\ E = Unbound /\ PEEQ = Unbound
    /\ MISES = Unbound /\ EEQ = Unbound
    /\ RESarr \in StatArrays
    /\ report = NoReport
    /\ stdout = <<>>
    /\ error = NoError
    /\ exitcode = 0 - 1

NextStats == WriteTxtfile

SpecStats == InitStats /\ [][NextStats]_vars

\* ------------------------------------------------- vocabulary of the claims
Terminal == pc \in {"done", "exited", "crashed"}
ValidPath == Last4(fname) = <<".", "d", "a", "t">>
\* read_input has been called on lines
WasRead == ValidPath /\ pc \notin {"start", "read"}

SetMin(X) == CHOOSE m \in X : \A x \in X : m <= x

IsHeader(cline) == ~isdigit(cline[1])
HeaderPositions(ls) == {i \in 0..(Len(ls) - 1) : IsHeader(ls[i + 1])}
Positions(ls, key) == {i \in 0..(Len(ls) - 1) : Key(ls[i + 1]) = key}
Present(ls, key) == Positions(ls, key) # {}
First(ls, key) == SetMin(Positions(ls, key))

\* The block of a header at position h: the lines strictly after h and
\* strictly before the next header line of any kind, or the end of the file.
ExtentEnd(ls, h) ==
    LET later == {p \in HeaderPositions(ls) : p > h}
    IN IF later = {} THEN Len(ls) ELSE SetMin(later)
Extent(ls, key) == Slice(ls, First(ls, key) + 1, ExtentEnd(ls, First(ls, key)))

\* Rows of numbers only, all of width w.
GoodRows(rows, w) ==
    \A i \in 1..Len(rows) :
        Len(rows[i]) = w /\ \A j \in 1..Len(rows[i]) : IsFloat(rows[i][j])

\* Every header line is a recognized one and no key occurs twice.
OnlyRecognizedOnce(ls) ==
    /\ \A p \in HeaderPositions(ls) : Key(ls[p + 1]) \in Recognized
    /\ \A key \in Recognized : Cardinality(Positions(ls, key)) <= 1

Column(rows, j) == [i \in 1..Len(rows) |-> rows[i][j]]

\* ------------------------------------------------------------------ claims

C1_Pre(ls) ==
    /\ OnlyRecognizedOnce(ls)
    /\ Present(ls, StressKey) /\ ~Present(ls, StrainKey)
    /\ Len(Extent(ls, StressKey)) >= 1
    /\ GoodRows(Extent(ls, StressKey), 8)
    /\ Present(ls, PeeqKey) =>
          /\ Len(Extent(ls, PeeqKey)) = Len(Extent(ls, StressKey))
          /\ GoodRows(Extent(ls, PeeqKey), 3)

\* C1: a run on a file with a stress header followed by at least one data
\* row and with no strain header completes and writes a report whose EEQ
\* entries are all not-a-number, whose MISES column is the one computed
\* from the stress rows and whose PEEQ column is the one of the
\* plastic-strain rows (all not-a-number without that block).  Stated for
\* files whose header lines are recognized ones, one per key.
C1_StrainAbsentReport ==
    (Terminal /\ ValidPath /\ C1_Pre(lines)) =>
        /\ pc = "done"
        /\ report.written
        /\ Len(report.rows) = Len(Extent(lines, StressKey))
        /\ \A i \in 1..Len(report.rows) : report.rows[i][4].nan
        /\ Column(report.rows, 3)
             = Column(compute_eqstress(NpArray(Extent(lines, StressKey))).a, 3)
        /\ Column(report.rows, 5)
             = IF Present(lines, PeeqKey)
               THEN Column(NpArray(Extent(lines, PeeqKey)).a, 3)
               ELSE [i \in 1..Len(report.rows) |-> NaN]

C2_Pre(ls) ==
    /\ Present(ls, StressKey)
    /\ \A key \in Recognized : Cardinality(Positions(ls, key)) <= 1
    /\ \A key \in Recognized : Present(ls, key) => ~NpArrayFails(Extent(ls, key))

\* C2: for a file with a stress header, read_input returns for each
\* recognized header present the lines strictly between the header and the
\* next header line of any kind (the end of the file when there is none).
\* Stated for files whose blocks hold rows np.array accepts and in which no
\* recognized key occurs twice.
C2_BlockIsNextHeaderExtent ==
    (WasRead /\ C2_Pre(lines)) =>
        /\ S = NpArray(Extent(lines, StressKey))
        /\ Present(lines, StrainKey) => E = NpArray(Extent(lines, StrainKey))
        /\ Present(lines, PeeqKey) => PEEQ = NpArray(Extent(lines, PeeqKey))

\* C5: the exit status of a finished run is 0 exactly when a report was
\* written, and nonzero when the path lacks the suffix, when the stress
\* header is missing and when a row of a block is malformed.
C5_ExitCodeTellsSuccess ==
    Terminal =>
        /\ (exitcode = 0) <=> report.written
        /\ ~ValidPath => exitcode # 0
        /\ (ValidPath /\ ~Present(lines, StressKey)) => exitcode # 0
        /\ error.type = "ValueError" => exitcode # 0

\* C6: a run on a file without a line of the stress header key ends at the
\* fatal exit of read_input: nothing is parsed or computed and no report
\* is written, whatever else the file holds.
C6_NoStressNoReport ==
    (WasRead /\ ~Present(lines, StressKey)) =>
        /\ pc = "exited"
        /\ stdout = <<MsgNoS>>
        /\ S = Unbound /\ E = Unbound /\ PEEQ = Unbound
        /\ MISES = Unbound /\ EEQ = Unbound /\ RESarr = Unbound
        /\ report = NoReport

C6_Witness ==
    /\ pc = "exited" /\ ValidPath
    /\ ~Present(lines, StressKey)
    /\ Present(lines, StrainKey) /\ Present(lines, PeeqKey)
    /\ HeaderPositions(lines) # Positions(lines, StrainKey) \cup Positions(lines, PeeqKey)
    /\ Len(Extent(lines, StrainKey)) >= 1

WellFormed3(ls) ==
    /\ ls # <<>> /\ IsHeader(ls[1])
    /\ OnlyRecognizedOnce(ls)
    /\ \A key \in Recognized :
          /\ Present(ls, key)
          /\ Len(Extent(ls, key)) >= 1
          /\ ~NpArrayFails(Extent(ls, key))

Orders3 == {o \in [1..3 -> Recognized] : \A i, j \in 1..3 : i # j => o[i] # o[j]}

BlockLines(ls, key) == <<ls[First(ls, key) + 1]>> \o Extent(ls, key)
Reorder(ls, o) == BlockLines(ls, o[1]) \o BlockLines(ls, o[2]) \o BlockLines(ls, o[3])

\* C3: on a file made of the three recognized blocks, each header followed
\* by at least one row of numbers, read_input returns for each block exactly
\* the rows after its header, and returns the same three arrays for each of
\* the six orders of the blocks.
C3_OrderIndependent ==
    (WasRead /\ WellFormed3(lines)) =>
        /\ S = NpArray(Extent(lines, StressKey))
        /\ E = NpArray(Extent(lines, StrainKey))
        /\ PEEQ = NpArray(Extent(lines, PeeqKey))
        /\ \A o \in Orders3 :
              \E r \in {read_input(Reorder(lines, o))} :
                  r.out = "ok" /\ r.S = S /\ r.E = E /\ r.PEEQ = PEEQ

C3_Witness ==
    /\ WasRead /\ WellFormed3(lines)
    /\ lines[1] = HdrP /\ First(lines, StressKey) > First(lines, StrainKey)
    /\ Len(S.a) = 2 /\ Len(E.a) = 1 /\ Len(PEEQ.a) = 2
    /\ S.a[1] # S.a[2]

HasDuplicate(ls) == \E key \in Recognized : Cardinality(Positions(ls, key)) > 1

RECURSIVE DropLaterDuplicates(_, _)
DropLaterDuplicates(ls, n) ==
    IF n = 0 THEN <<>>
    ELSE IF Key(ls[n]) \in Recognized /\ First(ls, Key(ls[n])) # n - 1
         THEN DropLaterDuplicates(ls, n - 1)
         ELSE Append(DropLaterDuplicates(ls, n - 1), ls[n])

C4_Pre(ls) ==
    /\ HasDuplicate(ls)
    /\ \E r \in {read_input(DropLaterDuplicates(ls, Len(ls)))} :
          r.out = "ok" /\ Len(r.S.a) >= 1

\* C4: a later occurrence of a recognized header key is ignored: a file
\* that reads (with a stress row) without its later duplicates reads with
\* them too, the stress block is found at the first occurrence of its key,
\* and no line of a recognized key lies among the lines taken for a block.
C4_DuplicateHeaderIgnored ==
    (WasRead /\ C4_Pre(lines)) =>
        /\ S # Unbound
        /\ S.a # <<>> /\ S.a[1] = NpArray(<<lines[First(lines, StressKey) + 2]>>).a[1]
        /\ \A k \in 1..3 :
              ~indexarr(lines)[k].nan =>
                  \A i \in 1..Len(BlockSlice(lines, indexarr(lines), k)) :
                      Key(BlockSlice(lines, indexarr(lines), k)[i]) \notin Recognized

C7_Pre(ls) ==
    /\ Present(ls, StressKey) /\ Present(ls, StrainKey) /\ ~Present(ls, PeeqKey)
    /\ Len(Extent(ls, StressKey)) >= 1
    /\ Len(Extent(ls, StrainKey)) = Len(Extent(ls, StressKey))
    /\ GoodRows(Extent(ls, StressKey), 8)
    /\ GoodRows(Extent(ls, StrainKey), 8)

\* C7: a run on a file with a stress block of n >= 1 rows, a strain block
\* of n rows and no plastic-strain header is not fatal: the warning is
\* printed, the report has n rows, every PEEQ entry is not-a-number, and
\* the ids, MISES and EEQ of every row are those the stress and strain rows
\* give (as on the same file with a plastic-strain block added at its end).
C7_PeeqAbsentLocalized ==
    (Terminal /\ ValidPath /\ C7_Pre(lines)) =>
        /\ pc = "done"
        /\ In(MsgNoP, stdout)
        /\ report.written
        /\ Len(report.rows) = Len(Extent(lines, StressKey))
        /\ \A i \in 1..Len(report.rows) : report.rows[i][5].nan
        /\ \A i \in 1..Len(report.rows) :
              SubSeq(report.rows[i], 1, 3)
                  = compute_eqstress(NpArray(Extent(lines, StressKey))).a[i]
        /\ Column(report.rows, 4)
              = Column(compute_eqstrain(NpArray(Extent(lines, StrainKey))).a, 3)

RECURSIVE SumV(_, _)
SumV(col, n) == IF n = 0 THEN 0 ELSE SumV(col, n - 1) + col[n].v

\* C8: in the report write_txtfile writes, a scalar column (MISES, EEQ,
\* PEEQ) holding a not-a-number has not-a-number for Minimum, Maximum and
\* Mean; a column without one has its least entry, its greatest entry and
\* the sum of its entries over the number of rows.
C8_StatsPropagateNaN ==
    report.written =>
        \A c \in 1..3 :
            LET col == Column(report.rows, c + 2)
                n == Len(col)
            IN IF \E i \in 1..n : col[i].nan
               THEN report.min[c].nan /\ report.max[c].nan /\ report.mean[c].nan
               ELSE /\ ~report.min[c].nan /\ ~report.max[c].nan /\ ~report.mean[c].nan
                    /\ \E i \in 1..n : col[i].v = report.min[c].v
                    /\ \A i \in 1..n : report.min[c].v <= col[i].v
                    /\ \E i \in 1..n : col[i].v = report.max[c].v
                    /\ \A i \in 1..n : report.max[c].v >= col[i].v
                    /\ report.mean[c].num = SumV(col, n)
                    /\ report.mean[c].den = n

C8_Witness ==
    /\ report.written /\ Len(report.rows) = 2
    /\ report.rows = RESarr.a
    /\ report.rows[1][3].nan /\ ~report.rows[2][3].nan
    /\ ~report.rows[1][4].nan /\ report.rows[2][4].nan
    /\ ~report.rows[1][5].nan /\ ~report.rows[2][5].nan
    /\ report.rows[1][5].v > report.rows[2][5].v

MalformedAt(ls, p) ==
    /\ p \in 0..(Len(ls) - 1)
    /\ ~IsHeader(ls[p + 1])
    /\ \E j \in 1..Len(ls[p + 1]) : ~IsFloat(ls[p + 1][j])
    /\ \E key \in Recognized :
          /\ Present(ls, key)
          /\ First(ls, key) < p /\ p < ExtentEnd(ls, First(ls, key))

\* C9 as claimed: a data row inside the block of a recognized header with a
\* token that is no number makes the run fail with a malformed-row failure
\* that reports the position of the offending row, and no report is written.
C9_MalformedRowReportsPosition ==
    (WasRead /\ \E p \in 0..(Len(lines) - 1) : MalformedAt(lines, p)) =>
        /\ pc = "crashed"
        /\ error.type = "ValueError"
        /\ MalformedAt(lines, error.line)
        /\ ~report.written

\* C9 as amended: with the stress header present, such a row makes
\* read_input end in the uncaught ValueError of the conversion, which names
\* no position of the file; the exit status is 1, no block is returned and
\* no report is written.
C9_MalformedRowIsFatal ==
    (WasRead /\ Present(lines, StressKey)
        /\ \E p \in 0..(Len(lines) - 1) : MalformedAt(lines, p)) =>
        /\ pc = "crashed"
        /\ error = Raised("ValueError")
        /\ error.line = 0 - 1
        /\ exitcode = 1
        /\ S = Unbound /\ E = Unbound /\ PEEQ = Unbound /\ MISES = Unbound
        /\ report = NoReport

C9_Witness ==
    /\ pc = "crashed" /\ error.type = "ValueError"
    /\ Present(lines, StressKey) /\ Present(lines, StrainKey)
    /\ ~NpArrayFails(Extent(lines, StressKey))
    /\ Len(Extent(lines, StressKey)) >= 1
    /\ \E p \in 0..(Len(lines) - 1) :
          MalformedAt(lines, p) /\ p > First(lines, StrainKey) /\ p > First(lines, StressKey)

RowCountsDiffer ==
    \/ Len(S.a) = 0
    \/ Present(lines, StrainKey) /\ Len(E.a) # Len(S.a)
    \/ Present(lines, PeeqKey) /\ Len(PEEQ.a) # Len(S.a)

\* C10: a written report has as many rows as read_input returned for the
\* stress block, at least one; row i carries the element and
\* integration-point id of the i-th line after the stress header; a strain
\* or plastic-strain block that is present has that many rows too.  A run
\* whose stress block is empty, or whose present strain or plastic-strain
\* block has another number of rows, ends in an exception without a report.
C10_RowsAligned ==
    /\ (WasRead /\ report.written) =>
          /\ Len(S.a) >= 1
          /\ Len(report.rows) = Len(S.a)
          /\ \A i \in 1..Len(report.rows) :
                /\ report.rows[i][1] = F(lines[First(lines, StressKey) + 1 + i][1].n)
                /\ report.rows[i][2] = F(lines[First(lines, StressKey) + 1 + i][2].n)
                /\ report.rows[i][1] = S.a[i][1] /\ report.rows[i][2] = S.a[i][2]
          /\ ~RowCountsDiffer
    /\ (WasRead /\ Terminal /\ S # Unbound /\ RowCountsDiffer) =>
          pc = "crashed" /\ report = NoReport

C10_Witness ==
    /\ pc = "done" /\ report.written
    /\ Len(report.rows) = 2
    /\ report.rows[1][1] # report.rows[2][1]
    /\ Present(lines, StrainKey) /\ Present(lines, PeeqKey)
    /\ ~report.rows[1][5].nan

C10_WitnessAbort ==
    /\ pc = "crashed" /\ S # Unbound /\ Len(S.a) = 2
    /\ Present(lines, PeeqKey) /\ Len(PEEQ.a) = 1
    /\ Present(lines, StrainKey) /\ Len(E.a) = 2

====
